---- MODULE Spec2Model ----
(***************************************************************************)
(* A model of the charm metadata core: the generic-tree canonicalizer      *)
(* (cleanse), the nested-path accessor (recurseMapOnKeys), the action      *)
(* schema builder (ReadActionsYaml), the action parameter validator        *)
(* (ActionSpec.ValidateParams) and the resource descriptor validator       *)
(* (Meta.Validate).                                                        *)
(*                                                                         *)
(* Go strings are sequences of one-character strings, so that matching,    *)
(* searching and joining are computed rather than assumed.  A Go           *)
(* interface{} value is a record tagged with its dynamic type ("kind").    *)
(* Ranging over a Go map visits the entries in an unspecified order: every *)
(* operator that models such a loop returns the SET of outcomes, one for   *)
(* each order.                                                             *)
(***************************************************************************)
EXTENDS Integers, Sequences, FiniteSets, TLC

VARIABLES
    pc,        \* position of the operation under analysis: "call" or "done"
    input,     \* cleanse: the argument
    output,    \* cleanse: the returned (value, error) pair
    keys,      \* recurseMapOnKeys: the path
    params,    \* recurseMapOnKeys: the map searched
    answer,    \* recurseMapOnKeys: the returned (value, ok) pair
    meta,      \* Meta.Validate: the receiver
    verr,      \* Meta.Validate: the returned error
    calls,     \* Meta.Validate: number of calls made on meta
    doc,       \* ReadActionsYaml: the unmarshaled document
    pending,   \* ReadActionsYaml: action names the outer loop has yet to visit
    result,    \* ReadActionsYaml: result.ActionSpecs, the map under construction
    ret,       \* ReadActionsYaml: the returned (*Actions, error) pair
    oracle,    \* ValidateParams: what the gojsonschema calls answer
    verdict    \* ValidateParams: the returned (bool, error) pair

vars == <<pc, input, output, keys, params, answer, meta, verr, calls,
          doc, pending, result, ret, oracle, verdict>>

-----------------------------------------------------------------------------
(* Bounds of the input universes.                                          *)

\* nodes (scalars and containers) of a tree handed to cleanse or searched by
\* recurseMapOnKeys
MaxNodes == 4
\* segments of a path handed to recurseMapOnKeys
MaxKeys == 2
\* characters of a resource's Path
MaxPathLen == 2
\* calls of Validate on one Meta
MaxCalls == 2
\* individual failures in one validation result
MaxErrors == 3
\* nodes of an action document: one for each action and one for each scalar
\* and container of the values its specification holds
MaxDocNodes == 4

-----------------------------------------------------------------------------
(* Go strings.                                                             *)

sA == <<"a">>
sB == <<"b">>
sX == <<"x">>
sRef == <<"$", "r", "e", "f">>
sSchema == <<"$", "s", "c", "h", "e", "m", "a">>

-----------------------------------------------------------------------------
(* Go values of type interface{}.                                          *)

Nil == [kind |-> "nil"]
String(s) == [kind |-> "string", s |-> s]
Number(n) == [kind |-> "int", n |-> n]
Slice(elems) == [kind |-> "slice", elems |-> elems]
\* map[string]interface{}: a function from Go strings
SMap(m) == [kind |-> "smap", m |-> m]
\* map[interface{}]interface{}: a function from Go values
IMap(m) == [kind |-> "imap", m |-> m]

EmptyMap == [k \in {} |-> Nil]

\* m[k] = v
Put(m, k, v) == [j \in (DOMAIN m) \cup {k} |-> IF j = k THEN v ELSE m[j]]

\* every order in which a range loop may visit the keys S of a map
Orders(S) ==
    {o \in [1..Cardinality(S) -> S] : \A i, j \in DOMAIN o : i # j => o[i] # o[j]}

-----------------------------------------------------------------------------
(* Trees by number of nodes, over the leaves and keys of a universe U.  T is *)
(* the table of the trees already built: T[k] holds those of exactly k     *)
(* nodes.                                                                  *)

\* S, its elements put in order once, so that the unions below search it fast
Sorted(S) == IF Cardinality(S) >= 0 THEN S ELSE {}

RECURSIVE Cup(_, _, _)

\* F(lo) \cup ... \cup F(hi)
Cup(F(_), lo, hi) == IF lo > hi THEN {} ELSE Sorted(F(lo)) \cup Cup(F, lo + 1, hi)

RECURSIVE ElemsOfSize(_, _), EntriesOfSize(_, _, _, _), Table(_, _)

\* the sequences of trees with n nodes in all
ElemsOfSize(T, n) ==
    IF n = 0 THEN {<<>>}
    ELSE LET First(k) == {<<t>> \o s : t \in T[k], s \in ElemsOfSize(T, n - k)}
         IN  Cup(First, 1, n)

\* the maps over the keys ks[i..] whose values have n nodes in all
EntriesOfSize(T, ks, i, n) ==
    IF n = 0 THEN {EmptyMap}
    ELSE IF i > Len(ks) THEN {}
    ELSE LET With(k) == {Put(m, ks[i], t) : t \in T[k],
                                            m \in EntriesOfSize(T, ks, i + 1, n - k)}
         IN  Sorted(EntriesOfSize(T, ks, i + 1, n)) \cup Cup(With, 1, n)

Table(U, n) ==
    IF n = 0 THEN <<>>
    ELSE LET T == Table(U, n - 1) IN
         LET Kind(k) ==
                 CASE k = 1 -> IF n = 1 THEN U.leaves ELSE {}
                   [] k = 2 -> {Slice(e) : e \in ElemsOfSize(T, n - 1)}
                   [] k = 3 -> IF U.smaps
                               THEN {SMap(m) : m \in EntriesOfSize(T, U.skeys, 1, n - 1)}
                               ELSE {}
                   [] k = 4 -> {IMap(m) : m \in EntriesOfSize(T, U.ikeys, 1, n - 1)}
         IN  Append(T, Cup(Kind, 1, 4))

\* the trees of at most n nodes
Values(U, n) == LET T == Table(U, n) Size(k) == T[k] IN Cup(Size, 1, n)

-----------------------------------------------------------------------------
(* cleanse                                                                 *)

prohibitedSchemaKeys == {sRef, sSchema}

NoError == [msg |-> "nil", key |-> <<>>]
\* fmt.Errorf("schema key %q not compatible with this version of juju", key)
ErrProhibited(key) == [msg |-> "schema key not compatible with this version of juju", key |-> key]
\* errors.New("map keyed with non-string value")
ErrNonString == [msg |-> "map keyed with non-string value", key |-> <<>>]

Returns(val, err) == [val |-> val, err |-> err]

RECURSIVE cleanse(_), cleanseStringMap(_, _, _, _), cleanseAnyMap(_, _, _, _),
          cleanseSlice(_, _, _), cleanseSlicePrepending(_, _, _)

\* case map[string]interface{}: entries order[i..] are still to visit
cleanseStringMap(typedInput, order, i, newMap) ==
    IF i > Len(order) THEN {Returns(SMap(newMap), NoError)}
    ELSE LET key == order[i] IN
         IF key \in prohibitedSchemaKeys THEN {Returns(Nil, ErrProhibited(key))}
         ELSE UNION {IF r.err # NoError THEN {Returns(Nil, r.err)}
                     ELSE cleanseStringMap(typedInput, order, i + 1,
                                           Put(newMap, key, r.val))
                     : r \in cleanse(typedInput[key])}

\* case map[interface{}]interface{}: coerce the keys, then cleanse(newMap)
cleanseAnyMap(typedInput, order, i, newMap) ==
    IF i > Len(order) THEN cleanse(SMap(newMap))
    ELSE LET key == order[i] IN
         IF key.kind # "string" THEN {Returns(Nil, ErrNonString)}
         ELSE cleanseAnyMap(typedInput, order, i + 1,
                            Put(newMap, key.s, typedInput[key]))

\* cleanseSlice, were each cleansed element put in front of newSlice
cleanseSlicePrepending(typedInput, i, newSlice) ==
    IF i > Len(typedInput) THEN {Returns(Slice(newSlice), NoError)}
    ELSE UNION {IF r.err # NoError THEN {Returns(Nil, ErrNonString)}
                ELSE cleanseSlicePrepending(typedInput, i + 1, <<r.val>> \o newSlice)
                : r \in cleanse(typedInput[i])}

\* case []interface{}: any error of an element is replaced
cleanseSlice(typedInput, i, newSlice) ==
    IF i > Len(typedInput) THEN {Returns(Slice(newSlice), NoError)}
    ELSE UNION {IF r.err # NoError THEN {Returns(Nil, ErrNonString)}
                ELSE cleanseSlice(typedInput, i + 1, Append(newSlice, r.val))
                : r \in cleanse(typedInput[i])}

cleanse(in) ==
    CASE in.kind = "smap" ->
           UNION {cleanseStringMap(in.m, o, 1, EmptyMap) : o \in Orders(DOMAIN in.m)}
      [] in.kind = "imap" ->
           UNION {cleanseAnyMap(in.m, o, 1, EmptyMap) : o \in Orders(DOMAIN in.m)}
      [] in.kind = "slice" -> cleanseSlice(in.elems, 1, <<>>)
      [] OTHER -> {Returns(in, NoError)}

\* the trees cleanse is called on: scalars and nulls, slices, maps of both Go
\* types, with plain and prohibited string keys and a non-string key
CleanseUniverse ==
    [leaves |-> {Nil, String(sX)},
     smaps |-> TRUE,
     skeys |-> <<sA, sRef, sSchema>>,
     ikeys |-> <<String(sA), String(sRef), Number(1)>>]

CleanseInputs == Values(CleanseUniverse, MaxNodes)

None == [kind |-> "none"]

InitCleanse ==
    /\ pc = "call"
    /\ input \in CleanseInputs
    /\ output = None
    /\ keys = None /\ params = None /\ answer = None
    /\ meta = None /\ verr = None /\ calls = 0
    /\ doc = None /\ pending = None /\ result = None /\ ret = None
    /\ oracle = None /\ verdict = None

Cleanse ==
    /\ pc = "call"
    /\ output' \in cleanse(input)
    /\ pc' = "done"
    /\ UNCHANGED <<input, keys, params, answer, meta, verr, calls,
                   doc, pending, result, ret, oracle, verdict>>

NextCleanse == Cleanse

SpecCleanse == InitCleanse /\ [][NextCleanse]_vars

(* Shapes of trees the claims about cleanse speak of.                      *)

RECURSIVE HasProhibitedKey(_), HasNonStringKey(_), ContentEqual(_, _)

\* a prohibited key occurs as a mapping key at some depth of v
HasProhibitedKey(v) ==
    CASE v.kind = "smap" ->
           \E k \in DOMAIN v.m : k \in prohibitedSchemaKeys \/ HasProhibitedKey(v.m[k])
      [] v.kind = "imap" ->
           \E k \in DOMAIN v.m :
               \/ k.kind = "string" /\ k.s \in prohibitedSchemaKeys
               \/ HasProhibitedKey(v.m[k])
      [] v.kind = "slice" -> \E i \in DOMAIN v.elems : HasProhibitedKey(v.elems[i])
      [] OTHER -> FALSE

\* a key that is not a string occurs as a mapping key at some depth of v
HasNonStringKey(v) ==
    CASE v.kind = "smap" -> \E k \in DOMAIN v.m : HasNonStringKey(v.m[k])
      [] v.kind = "imap" ->
           \E k \in DOMAIN v.m : k.kind # "string" \/ HasNonStringKey(v.m[k])
      [] v.kind = "slice" -> \E i \in DOMAIN v.elems : HasNonStringKey(v.elems[i])
      [] OTHER -> FALSE

\* the string keys of a mapping of either Go type
KeyStrings(v) ==
    IF v.kind = "smap" THEN DOMAIN v.m ELSE {k.s : k \in DOMAIN v.m}

\* the value a mapping of either Go type holds under the string key s
ValueAt(v, s) == IF v.kind = "smap" THEN v.m[s] ELSE v.m[String(s)]

IsMapping(v) == v.kind \in {"smap", "imap"}

\* a and b have the same content: the same keys with content-equal values in
\* mappings, content-equal elements in the same order in sequences, the same
\* scalar or null otherwise
ContentEqual(a, b) ==
    CASE IsMapping(a) ->
           /\ IsMapping(b)
           /\ KeyStrings(a) = KeyStrings(b)
           /\ \A s \in KeyStrings(a) : ContentEqual(ValueAt(a, s), ValueAt(b, s))
      [] a.kind = "slice" ->
           /\ b.kind = "slice"
           /\ Len(a.elems) = Len(b.elems)
           /\ \A i \in DOMAIN a.elems : ContentEqual(a.elems[i], b.elems[i])
      [] OTHER -> a = b

\* C1: whenever a prohibited key occurs as a mapping key at any depth of the
\* input, cleanse fails and the error is the prohibited-key error.
C1_ProhibitedKeyReported ==
    (pc = "done" /\ HasProhibitedKey(input))
        => output.err.msg = ErrProhibited(sRef).msg

\* C8: on a tree whose mappings have only string keys, none of them
\* prohibited, cleanse succeeds with a tree content-equal to the input, and
\* the input is left as it was.
C8_CleanTreePreserved ==
    /\ [](  (pc = "done" /\ ~HasProhibitedKey(input) /\ ~HasNonStringKey(input))
              => (output.err = NoError /\ ContentEqual(input, output.val)))
    /\ [][input' = input]_vars

\* C8 witness: a clean tree holding a map[interface{}]interface{} with an
\* entry, inside a slice of two elements, has been cleansed.
C8_Witness ==
    /\ pc = "done"
    /\ ~HasProhibitedKey(input) /\ ~HasNonStringKey(input)
    /\ input.kind = "slice" /\ Len(input.elems) = 2
    /\ \E i \in DOMAIN input.elems :
           input.elems[i].kind = "imap" /\ DOMAIN input.elems[i].m # {}
    /\ output.err = NoError

\* C9: the outcome of cleanse is the same for every order in which the
\* entries of each mapping are visited: the same tree on success, the same
\* kind of error on failure.
C9_OutcomeIndependentOfOrder ==
    pc = "done" =>
        \A r \in cleanse(input) : r.val = output.val /\ r.err.msg = output.err.msg

-----------------------------------------------------------------------------
(* recurseMapOnKeys                                                        *)

Found(val, ok) == [val |-> val, ok |-> ok]

RECURSIVE recurseMapOnKeys(_, _), recurseAnyMap(_, _, _, _, _),
          recurseAnyMapSkipping(_, _, _, _, _)

\* recurseAnyMap, were an entry with a non-string key skipped
recurseAnyMapSkipping(ks, typed, order, i, m) ==
    IF i > Len(order) THEN recurseMapOnKeys(Tail(ks), m)
    ELSE LET k == order[i] IN
         IF k.kind = "string"
         THEN recurseAnyMapSkipping(ks, typed, order, i + 1, Put(m, k.s, typed[k]))
         ELSE recurseAnyMapSkipping(ks, typed, order, i + 1, m)

\* case map[interface{}]interface{}: entries order[i..] are still to visit
recurseAnyMap(ks, typed, order, i, m) ==
    IF i > Len(order) THEN recurseMapOnKeys(Tail(ks), m)
    ELSE LET k == order[i] IN
         IF k.kind = "string"
         THEN recurseAnyMap(ks, typed, order, i + 1, Put(m, k.s, typed[k]))
         ELSE {Found(Nil, FALSE)}

\* ks is the path (not empty), ps the map[string]interface{} searched
recurseMapOnKeys(ks, ps) ==
    LET key == Head(ks)
        rest == Tail(ks)
        ok == key \in DOMAIN ps
        ans == IF ok THEN ps[key] ELSE Nil
    IN  IF Len(rest) = 0 THEN {Found(ans, ok)}
        ELSE IF ~ok THEN {Found(Nil, FALSE)}
        ELSE CASE ans.kind = "smap" -> recurseMapOnKeys(Tail(ks), ans.m)
               [] ans.kind = "imap" ->
                    UNION {recurseAnyMap(ks, ans.m, o, 1, EmptyMap)
                           : o \in Orders(DOMAIN ans.m)}
               [] OTHER -> {Found(Nil, FALSE)}

\* the trees recurseMapOnKeys searches
LookupUniverse ==
    [leaves |-> {Nil, String(sX)},
     smaps |-> TRUE,
     skeys |-> <<sA, sB>>,
     ikeys |-> <<String(sA), Number(1)>>]

\* the maps handed to recurseMapOnKeys: map[string]interface{}
LookupParams == {v.m : v \in {t \in Values(LookupUniverse, MaxNodes) : t.kind = "smap"}}

\* the paths handed to recurseMapOnKeys: never empty
LookupKeys == UNION {[1..n -> {sA, sB}] : n \in 1..MaxKeys}

InitLookup ==
    /\ pc = "call"
    /\ keys \in LookupKeys
    /\ params \in LookupParams
    /\ answer = None
    /\ input = None /\ output = None
    /\ meta = None /\ verr = None /\ calls = 0
    /\ doc = None /\ pending = None /\ result = None /\ ret = None
    /\ oracle = None /\ verdict = None

Lookup ==
    /\ pc = "call"
    /\ answer' \in recurseMapOnKeys(keys, params)
    /\ pc' = "done"
    /\ UNCHANGED <<input, output, keys, params, meta, verr, calls,
                   doc, pending, result, ret, oracle, verdict>>

NextLookup == Lookup

SpecLookup == InitLookup /\ [][NextLookup]_vars

\* v is a mapping all of whose keys are strings
IsStringKeyed(v) ==
    \/ v.kind = "smap"
    \/ v.kind = "imap" /\ \A k \in DOMAIN v.m : k.kind = "string"

RECURSIVE Follows(_, _)

\* what following the path ks from the string-keyed mapping v arrives at
Follows(ks, v) ==
    IF Head(ks) \notin KeyStrings(v) THEN Found(Nil, FALSE)
    ELSE LET next == ValueAt(v, Head(ks)) IN
         IF Len(ks) = 1 THEN Found(next, TRUE)
         ELSE IF IsStringKeyed(next) THEN Follows(Tail(ks), next)
         ELSE Found(Nil, FALSE)

\* C7: recurseMapOnKeys returns (v, true) exactly when every segment but the
\* last is present in the mapping reached so far with a mapping of string
\* keys as its value and the last segment is present in the last mapping,
\* v being the value found there; otherwise it returns (nil, false).
C7_LookupFollowsPath ==
    pc = "done" => answer = Follows(keys, SMap(params))

\* C7 witness: a path of two segments was followed through a
\* map[interface{}]interface{} to a value that is present.
C7_Witness ==
    /\ pc = "done"
    /\ Len(keys) = 2
    /\ keys[1] \in DOMAIN params /\ params[keys[1]].kind = "imap"
    /\ answer.ok

-----------------------------------------------------------------------------
(* Meta.Validate                                                           *)

TypeUnknown == "unknown"
TypeFile == "file"
\* a Type value that is neither TypeUnknown nor a recognized type
TypeOther == "other"

\* the types Type.Validate accepts
RecognizedTypes == {TypeFile}

\* Type.Validate: nil exactly for a recognized type
TypeValidate(t) == IF t \in RecognizedTypes THEN "nil" ELSE "unsupported resource type"

\* strings.Contains
Contains(s, substr) ==
    \E i \in 1..(Len(s) - Len(substr) + 1) : SubSeq(s, i, i + Len(substr) - 1) = substr

NoNotValid == [kind |-> "nil", msg |-> "", arg |-> <<>>]
\* errors.NewNotValid(nil, msg), arg being what the message was formatted with
NewNotValid(msg, arg) == [kind |-> "NotValid", msg |-> msg, arg |-> arg]

\* Validate, were the path checked before the type
ValidatePathFirst(m) ==
    IF m.Name = <<>> THEN NewNotValid("resource missing name", <<>>)
    ELSE IF m.Path = <<>> THEN NewNotValid("resource missing filename", <<>>)
    ELSE IF m.Type = TypeUnknown THEN NewNotValid("resource missing type", <<>>)
    ELSE IF TypeValidate(m.Type) # "nil"
         THEN NewNotValid("invalid resource type", <<m.Type>>)
    ELSE IF m.Type = TypeFile /\ Contains(m.Path, <<"/">>)
         THEN NewNotValid("filename cannot contain /", m.Path)
    ELSE NoNotValid

Validate(m) ==
    IF m.Name = <<>> THEN NewNotValid("resource missing name", <<>>)
    ELSE IF m.Type = TypeUnknown THEN NewNotValid("resource missing type", <<>>)
    ELSE IF TypeValidate(m.Type) # "nil"
         THEN NewNotValid("invalid resource type", <<m.Type>>)
    ELSE IF m.Path = <<>> THEN NewNotValid("resource missing filename", <<>>)
    ELSE IF m.Type = TypeFile /\ Contains(m.Path, <<"/">>)
         THEN NewNotValid("filename cannot contain /", m.Path)
    ELSE NoNotValid

Metas ==
    [Name : {<<>>, <<"e">>},
     Type : {TypeUnknown, TypeFile, TypeOther},
     Path : UNION {[1..n -> {"x", "/"}] : n \in 0..MaxPathLen},
     Comment : {<<>>, <<"c">>}]

InitMeta ==
    /\ pc = "call"
    /\ meta \in Metas
    /\ verr = None
    /\ calls = 0
    /\ input = None /\ output = None
    /\ keys = None /\ params = None /\ answer = None
    /\ doc = None /\ pending = None /\ result = None /\ ret = None
    /\ oracle = None /\ verdict = None

\* one call of meta.Validate(); the receiver is a copy
MetaValidate ==
    /\ calls < MaxCalls
    /\ verr' = Validate(meta)
    /\ calls' = calls + 1
    /\ pc' = "done"
    /\ UNCHANGED <<input, output, keys, params, answer, meta,
                   doc, pending, result, ret, oracle, verdict>>

NextMeta == MetaValidate

SpecMeta == InitMeta /\ [][NextMeta]_vars

\* the checks of a descriptor, in their order: 1 name, 2 type, 3 path not
\* empty, 4 no separator in the path of a file
FailingChecks(m) ==
    {c \in 1..4 :
        \/ c = 1 /\ Len(m.Name) = 0
        \/ c = 2 /\ (m.Type = TypeUnknown \/ m.Type \notin RecognizedTypes)
        \/ c = 3 /\ Len(m.Path) = 0
        \/ c = 4 /\ m.Type = TypeFile /\ \E i \in DOMAIN m.Path : m.Path[i] = "/"}

\* the check an error of Validate reports
CheckOf(err) ==
    CASE err.msg = "resource missing name" -> 1
      [] err.msg \in {"resource missing type", "invalid resource type"} -> 2
      [] err.msg = "resource missing filename" -> 3
      [] err.msg = "filename cannot contain /" -> 4
      [] OTHER -> 0

\* C6: Validate succeeds exactly when no check fails and otherwise returns a
\* NotValid error for the first failing check in the order name, type, path
\* emptiness, path separator; it leaves the descriptor as it was and a
\* further call returns the same.
C6_FirstFailingCheck ==
    /\ [](calls >= 1 =>
            IF FailingChecks(meta) = {} THEN verr = NoNotValid
            ELSE /\ verr.kind = "NotValid"
                 /\ CheckOf(verr) \in FailingChecks(meta)
                 /\ \A c \in FailingChecks(meta) : CheckOf(verr) <= c)
    /\ [][meta' = meta /\ (calls >= 1 => verr' = verr)]_vars

\* C6 witness: Validate was called twice on a named descriptor that fails
\* both the type check and the later check of an empty path.
C6_Witness ==
    /\ calls = 2
    /\ {2, 3} \subseteq FailingChecks(meta)
    /\ 1 \notin FailingChecks(meta)

-----------------------------------------------------------------------------
(* ActionSpec.ValidateParams                                               *)

NilError == [nil |-> TRUE, text |-> <<>>]
\* an error whose Error() is text
Error(text) == [nil |-> FALSE, text |-> text]

sSeparator == <<";", " ">>
sValidationFailed ==
    <<"J", "S", "O", "N", " ", "v", "a", "l", "i", "d", "a", "t", "i", "o", "n", " ",
      "f", "a", "i", "l", "e", "d", ":", " ">>

RECURSIVE Join(_, _)

\* strings.Join
Join(elems, sep) ==
    IF Len(elems) = 0 THEN <<>>
    ELSE IF Len(elems) = 1 THEN elems[1]
    ELSE elems[1] \o sep \o Join(Tail(elems), sep)

Verdict(ok, err) == [ok |-> ok, err |-> err]

\* ValidateParams, were only the first failure reported
ValidateParamsFirstOnly(o) ==
    IF ~o.newErr.nil THEN Verdict(FALSE, o.newErr)
    ELSE IF o.valid THEN Verdict(TRUE, NilError)
    ELSE Verdict(FALSE, Error(sValidationFailed \o Join(SubSeq(o.errors, 1, 1), sSeparator)))

\* o holds what gojsonschema answers for spec.Params and params: the error of
\* NewJsonSchemaDocument, and Valid() and the String() of each of Errors() of
\* the validation result
ValidateParams(o) ==
    IF ~o.newErr.nil THEN Verdict(FALSE, o.newErr)
    ELSE IF o.valid THEN Verdict(TRUE, NilError)
    ELSE LET errorStrings == o.errors IN
         Verdict(FALSE, Error(sValidationFailed \o Join(errorStrings, sSeparator)))

\* the String() of an individual validation failure
FailureStrings == {<<"t", "y", "p", "e">>, <<"r", "e", "q">>}

Oracles ==
    [newErr : {NilError, Error(<<"b", "a", "d">>)},
     valid : BOOLEAN,
     errors : UNION {[1..n -> FailureStrings] : n \in 0..MaxErrors}]

InitValidate ==
    /\ pc = "call"
    /\ oracle \in Oracles
    /\ verdict = None
    /\ input = None /\ output = None
    /\ keys = None /\ params = None /\ answer = None
    /\ meta = None /\ verr = None /\ calls = 0
    /\ doc = None /\ pending = None /\ result = None /\ ret = None

ValidateParamsCall ==
    /\ pc = "call"
    /\ verdict' = ValidateParams(oracle)
    /\ pc' = "done"
    /\ UNCHANGED <<input, output, keys, params, answer, meta, verr, calls,
                   doc, pending, result, ret, oracle>>

NextValidate == ValidateParamsCall

SpecValidate == InitValidate /\ [][NextValidate]_vars

RECURSIVE Offset(_, _)

\* where the i-th failure starts in the text that follows the prefix
Offset(errors, i) ==
    IF i = 1 THEN 1
    ELSE Offset(errors, i - 1) + Len(errors[i - 1]) + Len(sSeparator)

\* text is the prefix followed by each of errors in order, "; " between them
ReportsAll(text, errors) ==
    LET n == Len(errors)
        body == SubSeq(text, Len(sValidationFailed) + 1, Len(text))
    IN  /\ Len(text) >= Len(sValidationFailed)
        /\ SubSeq(text, 1, Len(sValidationFailed)) = sValidationFailed
        /\ Len(body) = IF n = 0 THEN 0 ELSE Offset(errors, n) + Len(errors[n]) - 1
        /\ \A i \in 1..n :
               /\ SubSeq(body, Offset(errors, i), Offset(errors, i) + Len(errors[i]) - 1)
                      = errors[i]
               /\ i < n => SubSeq(body, Offset(errors, i) + Len(errors[i]),
                                  Offset(errors, i + 1) - 1) = sSeparator

\* C5: ValidateParams returns (false, the construction error unchanged) when
\* the schema does not compile, (true, nil) when the instance is valid, and
\* otherwise (false, error) whose text is "JSON validation failed: " followed
\* by every failure in order joined by "; "; never true with an error, never
\* false without one.
C5_ThreeOutcomes ==
    pc = "done" =>
        /\ ~oracle.newErr.nil => verdict = Verdict(FALSE, oracle.newErr)
        /\ (oracle.newErr.nil /\ oracle.valid) => verdict = Verdict(TRUE, NilError)
        /\ (oracle.newErr.nil /\ ~oracle.valid) =>
               /\ ~verdict.ok
               /\ ~verdict.err.nil
               /\ ReportsAll(verdict.err.text, oracle.errors)
        /\ verdict.ok <=> verdict.err.nil

\* C5 witness: an instance with three failures, not all alike, was rejected.
C5_Witness ==
    /\ pc = "done"
    /\ oracle.newErr.nil /\ ~oracle.valid
    /\ Len(oracle.errors) = 3 /\ oracle.errors[1] # oracle.errors[3]
    /\ ~verdict.ok

-----------------------------------------------------------------------------
(* ReadActionsYaml                                                         *)

sDescription == <<"d", "e", "s", "c", "r", "i", "p", "t", "i", "o", "n">>
sTitle == <<"t", "i", "t", "l", "e">>
sRequired == <<"r", "e", "q", "u", "i", "r", "e", "d">>
sParams == <<"p", "a", "r", "a", "m", "s">>
sProperties == <<"p", "r", "o", "p", "e", "r", "t", "i", "e", "s">>
sType == <<"t", "y", "p", "e">>
sObject == <<"o", "b", "j", "e", "c", "t">>
sNoDescription ==
    <<"N", "o", " ", "d", "e", "s", "c", "r", "i", "p", "t", "i", "o", "n">>

LowerCase ==
    {"a", "b", "c", "d", "e", "f", "g", "h", "i", "j", "k", "l", "m",
     "n", "o", "p", "q", "r", "s", "t", "u", "v", "w", "x", "y", "z"}

\* actionNameRule.MatchString: ^[a-z](?:[a-z-]*[a-z])?$
MatchString(name) ==
    /\ Len(name) >= 1
    /\ name[1] \in LowerCase
    /\ name[Len(name)] \in LowerCase
    /\ \A i \in DOMAIN name : name[i] \in LowerCase \cup {"-"}

\* fmt.Errorf("bad action name %s", name)
ErrBadName(name) == [msg |-> "bad action name", key |-> name]
\* errors.Errorf("value for schema key %q must be a string", key)
ErrNotString(key) == [msg |-> "value for schema key must be a string", key |-> key]
\* errors.Errorf("value for schema key %q must be a YAML list", key)
ErrNotList(key) == [msg |-> "value for schema key must be a YAML list", key |-> key]
\* errors.New("params failed to parse as a map")
ErrParamsNotMap == [msg |-> "params failed to parse as a map", key |-> <<>>]
\* errors.Annotatef(err, "invalid params schema for action schema %s", name)
ErrInvalidSchema(name) == [msg |-> "invalid params schema for action schema", key |-> name]

ActionSpec(desc, schema) == [Description |-> desc, Params |-> schema]

\* an entry of the document as built: the error, or the ActionSpec stored
Built(err, spec) == [err |-> err, spec |-> spec]

\* gojsonschema.NewJsonSchemaDocument(thisActionSchema): the schema grammar
\* is the library's, so either answer is taken for every document
NewJsonSchemaDocument(schema) == {NoError, ErrInvalidSchema(<<>>)}

\* lines 138-149: the self-check of the scaffold, then the entry stored
checkSchema(name, desc, thisActionSchema) ==
    {IF e # NoError THEN Built(ErrInvalidSchema(name), None)
     ELSE Built(NoError, ActionSpec(desc, thisActionSchema))
     : e \in NewJsonSchemaDocument(thisActionSchema)}

RECURSIVE rangeActionSpec(_, _, _, _, _, _)

\* for key, value := range actionSpec: the keys order[i..] are still to visit
rangeActionSpec(name, actionSpec, order, i, desc, thisActionSchema) ==
    IF i > Len(order) THEN checkSchema(name, desc, thisActionSchema)
    ELSE LET key == order[i]
             value == actionSpec[key]
         IN
         CASE key = sDescription ->
                IF value.kind # "string" THEN {Built(ErrNotString(key), None)}
                ELSE rangeActionSpec(name, actionSpec, order, i + 1, value.s,
                                     Put(thisActionSchema, key, value))
           [] key = sTitle ->
                IF value.kind # "string" THEN {Built(ErrNotString(key), None)}
                ELSE rangeActionSpec(name, actionSpec, order, i + 1, desc,
                                     Put(thisActionSchema, key, value))
           [] key = sRequired ->
                IF value.kind # "slice" THEN {Built(ErrNotList(key), None)}
                ELSE rangeActionSpec(name, actionSpec, order, i + 1, desc,
                                     Put(thisActionSchema, key, value))
           [] key = sParams ->
                UNION {IF r.err # NoError THEN {Built(r.err, None)}
                       ELSE IF r.val.kind # "smap" THEN {Built(ErrParamsNotMap, None)}
                       ELSE rangeActionSpec(name, actionSpec, order, i + 1, desc,
                                            Put(thisActionSchema, sProperties, r.val))
                       : r \in cleanse(value)}
           [] OTHER ->
                UNION {IF r.err # NoError THEN {Built(r.err, None)}
                       ELSE rangeActionSpec(name, actionSpec, order, i + 1, desc,
                                            Put(thisActionSchema, key, r.val))
                       : r \in cleanse(value)}

\* lines 83-89: the scaffold of the schema of action name
Scaffold(name) ==
    [k \in {sDescription, sType, sTitle, sProperties} |->
        CASE k = sDescription -> String(sNoDescription)
          [] k = sType -> String(sObject)
          [] k = sTitle -> String(name)
          [] k = sProperties -> SMap(EmptyMap)]

\* one pass of the loop over the document (lines 79-149), for every order of
\* the keys of actionSpec
buildEntry(name, actionSpec) ==
    IF ~MatchString(name) THEN {Built(ErrBadName(name), None)}
    ELSE UNION {rangeActionSpec(name, actionSpec, o, 1, sNoDescription, Scaffold(name))
                : o \in Orders(DOMAIN actionSpec)}

\* what ReadActionsYaml returns: (*Actions, error)
Returned(actions, err) == [actions |-> actions, err |-> err]

\* return nil, err, were the entries built so far handed out with the error
failKeepingEntries(specs, err) == Returned([ActionSpecs |-> specs], err)

\* return nil, err
fail(specs, err) == Returned(Nil, err)

\* the values yaml.Unmarshal leaves in an action specification: strings,
\* slices and maps, every map a map[interface{}]interface{}
DocUniverse ==
    [leaves |-> {String(sX)},
     smaps |-> FALSE,
     skeys |-> <<>>,
     ikeys |-> <<String(sA), String(sRef), Number(1)>>]

\* the keys of an action specification: the four the loop knows and three
\* it does not
SpecKeys == <<sDescription, sTitle, sRequired, sParams, sProperties, sType, sSchema>>

\* action names: two that match actionNameRule and one that does not
ActionNames == <<sA, sB, <<"a", "-">>>>

\* the documents of at most n nodes
Docs(n) ==
    LET T == Table(DocUniverse, n)
        \* S[k]: the action specifications of k nodes, the action counted
        S == [k \in 1..n |-> EntriesOfSize(T, SpecKeys, 1, k - 1)]
        Size(k) == EntriesOfSize(S, ActionNames, 1, k)
    IN  Cup(Size, 0, n)

InitActions ==
    /\ pc = "call"
    /\ doc \in Docs(MaxDocNodes)
    /\ pending = DOMAIN doc
    /\ result = EmptyMap
    /\ ret = None
    /\ input = None /\ output = None
    /\ keys = None /\ params = None /\ answer = None
    /\ meta = None /\ verr = None /\ calls = 0
    /\ oracle = None /\ verdict = None

\* one pass of for name, actionSpec := range unmarshaledActions
ReadEntry ==
    /\ pc = "call"
    /\ \E name \in pending :
         \E b \in buildEntry(name, doc[name]) :
            IF b.err # NoError
            THEN /\ ret' = fail(result, b.err)
                 /\ pc' = "done"
                 /\ UNCHANGED <<pending, result>>
            ELSE /\ result' = Put(result, name, b.spec)
                 /\ pending' = pending \ {name}
                 /\ UNCHANGED <<pc, ret>>
    /\ UNCHANGED <<input, output, keys, params, answer, meta, verr, calls,
                   doc, oracle, verdict>>

\* the loop is over: return result, nil
ReadReturn ==
    /\ pc = "call"
    /\ pending = {}
    /\ ret' = Returned([ActionSpecs |-> result], NoError)
    /\ pc' = "done"
    /\ UNCHANGED <<input, output, keys, params, answer, meta, verr, calls,
                   doc, pending, result, oracle, verdict>>

NextActions == ReadEntry \/ ReadReturn

SpecActions == InitActions /\ [][NextActions]_vars

\* ReadActionsYaml has returned a collection
Succeeded == pc = "done" /\ ret.err = NoError

\* C2: in a returned collection no Params holds a prohibited key anywhere,
\* and every mapping nested in it has only string keys.
C2_ParamsAreSchemaDocuments ==
    Succeeded =>
        \A name \in DOMAIN ret.actions.ActionSpecs :
            LET schema == SMap(ret.actions.ActionSpecs[name].Params) IN
            ~HasProhibitedKey(schema) /\ ~HasNonStringKey(schema)

\* C3: in a returned collection every Params has description, type, title
\* and properties, type being "object", properties a string-keyed mapping
\* and description the Description of the ActionSpec, which is the
\* placeholder when the action gives none.
C3_ParamsKeepScaffold ==
    Succeeded =>
        \A name \in DOMAIN ret.actions.ActionSpecs :
            LET spec == ret.actions.ActionSpecs[name] IN
            /\ {sDescription, sType, sTitle, sProperties} \subseteq DOMAIN spec.Params
            /\ spec.Params[sType] = String(sObject)
            /\ spec.Params[sProperties].kind = "smap"
            /\ spec.Params[sDescription] = String(spec.Description)
            /\ sDescription \notin DOMAIN doc[name] => spec.Description = sNoDescription

\* C4: ReadActionsYaml returns an error and no collection as soon as an
\* entry fails, whatever was built before, and returns a collection only
\* with no error, holding one ActionSpec for each action name of the
\* document.
C4_AllOrNothing ==
    pc = "done" =>
        IF ret.err # NoError THEN ret.actions = Nil
        ELSE /\ ret.actions # Nil
             /\ DOMAIN ret.actions.ActionSpecs = DOMAIN doc

\* C4 witness: an entry failed after another had been built and stored.
C4_Witness ==
    /\ pc = "done"
    /\ ret.err # NoError
    /\ DOMAIN result # {}
    /\ ret.actions = Nil

\* C10: a returned collection is the same for every order of the entries
\* and of the keys of each action specification: whichever way an entry
\* can be built, it is the ActionSpec the collection holds.
C10_CollectionIndependentOfOrder ==
    Succeeded =>
        \A name \in DOMAIN doc :
            \A b \in buildEntry(name, doc[name]) :
                b.err = NoError => b.spec = ret.actions.ActionSpecs[name]

====
